---- MODULE Spec2Model ----
(***************************************************************************)
(* A model of drv_system.c (BreezySTM32, STM32F103CB): the SysTick         *)
(* timebase (SysTick_Handler, micros, millis), the busy-wait delays, the   *)
(* backup-register accessors, failureMode and systemReset, together with   *)
(* the part of the Cortex-M3 hardware they talk to.                        *)
(*                                                                         *)
(* uint32_t and uint64_t values are kept at their width.  TLC's integers   *)
(* stop at 2^31-1, so a C unsigned integer is a little-endian sequence of  *)
(* 16-bit limbs: two limbs for uint32_t, four for uint64_t.                *)
(***************************************************************************)
EXTENDS Integers, Sequences, FiniteSets, TLC

(***************************************************************************)
(* Bounds of the model.                                                    *)
(***************************************************************************)
\* tick periods followed after each boot
MaxTicks == 2
\* sample points of the countdown register inside one tick period
Slices == 2
\* largest argument of delay() that is tried
MaxDelayMs == 1
\* main-line steps a tick period lasts at least, where the period is
\* paced: one more than the three steps of one round of the loop of micros
PeriodSteps == 4

(***************************************************************************)
(* Unsigned C arithmetic on limbs.                                         *)
(***************************************************************************)
Base == 2^16

Zeros(n) == [i \in 1..n |-> 0]

\* propagate carries (and borrows) through a sequence of limbs; the carry
\* out of the last limb is dropped, which is arithmetic modulo Base^Len(s)
RECURSIVE Carry(_, _)
Carry(s, c) ==
    IF s = <<>> THEN <<>>
    ELSE LET t == s[1] + c
         IN  <<t % Base>> \o Carry(Tail(s), (t - (t % Base)) \div Base)

\* the integer n (|n| < 2^31) as an unsigned integer of len limbs
FromInt(n, len) == Carry(<<n>> \o Zeros(len - 1), 0)

\* widen an unsigned integer to len limbs
Widen(a, len) == a \o Zeros(len - Len(a))

AddU(a, b) == Carry([i \in 1..Len(a) |-> a[i] + b[i]], 0)

MulSmallU(a, k) == Carry([i \in 1..Len(a) |-> a[i] * k], 0)

RECURSIVE LessFrom(_, _, _)
LessFrom(a, b, i) ==
    IF i = 0 THEN FALSE
    ELSE IF a[i] # b[i] THEN a[i] < b[i]
    ELSE LessFrom(a, b, i - 1)

LessU(a, b) == LessFrom(a, b, Len(a))

LeqU(a, b) == ~LessU(b, a)

\* long division of an unsigned integer by a small divisor d > 0
RECURSIVE DivFrom(_, _, _, _)
DivFrom(a, d, i, rem) ==
    IF i = 0 THEN <<>>
    ELSE LET t == rem * Base + a[i]
         IN  DivFrom(a, d, i - 1, t % d) \o <<t \div d>>

DivSmallU(a, d) == DivFrom(a, d, Len(a), 0)

U32(n) == FromInt(n, 2)
U64(n) == FromInt(n, 4)
Max32 == <<Base - 1, Base - 1>>


(***************************************************************************)
(* Values the program and its environment use.                             *)
(***************************************************************************)
\* SYSCLK frequencies of the STM32F103: the 8 MHz internal oscillator and
\* the 72 MHz PLL clock (RCC_GetClocksFreq, SystemCoreClock)
Clocks == {8000000, 72000000}
\* 0xDEADBEEF, the bootloader-entry sentinel
BOOT_SENTINEL == <<48879, 57005>>
\* the fixed RAM word 0x20004FF0 holds anything at power-on
RamValues == {U32(0), BOOT_SENTINEL}
\* BKP_SOFTRESET (0x50F7B007, drv_system.h), the soft-reset magic value
BKP_SOFTRESET == <<45063, 20727>>
\* arguments tried for rccWriteBkpDr called by the application
BkpValues == {<<65535, 32768>>}
\* arguments tried for delayMicroseconds called by the application
DelayUs == {U32(0), U32(600), Max32}
\* ticks followed per boot where the tick period is paced
PacedTicks == MaxTicks + 2
\* the largest value micros() returns: (2^32 - 1) * 1000 + 1000
MaxMicros == <<1000, 0, 1000, 0>>
\* the tick count 2^32 - 2, two ticks before the 49-day rollover
NearRollover == U32(-2)

(***************************************************************************)
(* The expressions of the code.                                            *)
(***************************************************************************)
\* cycleCounterInit: usTicks = clocks.SYSCLK_Frequency / 1000000
CyclesPerMicrosecond(freq) == freq \div 1000000

\* systemInit: SysTick_Config(SystemCoreClock / 1000) sets the reload
\* register to ticks - 1
SysTickReload(freq) == (freq \div 1000) - 1

\* the values of the countdown register that are observed: the reload
\* value, zero, and Slices - 1 points between them
Marks(load) == {0, load} \cup {(k * (load + 1)) \div Slices : k \in 1..(Slices - 1)}

\* a counter that stops at its largest value
IncrementSaturating(t) == IF t = Max32 THEN t ELSE AddU(t, U32(1))
\* SysTick_Handler: sysTickUptime++ on a uint32_t
Increment(t) == IF t = Max32 THEN U32(0) ELSE AddU(t, U32(1))

\* no second read of the counter
RetryNever(m, uptime) == FALSE
\* the loop condition the wrong way round
RetryInverted(m, uptime) == m = uptime
\* a loop that never accepts what it read
RetryAlways(m, uptime) == TRUE
\* micros: while (ms != sysTickUptime)
Retry(m, uptime) == m # uptime

\* the countdown value taken for the elapsed part of the tick period
MicrosCountingUp(m, c, u) ==
    AddU(MulSmallU(Widen(m, 4), 1000), Widen(DivSmallU(U32(c), u), 4))
\* the subtraction the wrong way round
MicrosOperandsSwapped(m, c, u) ==
    AddU(MulSmallU(Widen(m, 4), 1000),
         Widen(DivSmallU(U32(c - u * 1000), u), 4))
\* micros: (uint64_t)ms * 1000 + (uint64_t)((usTicks * 1000 - cycle_cnt) / usTicks)
\* the inner term is computed in uint32_t
MicrosValue(m, c, u) ==
    AddU(MulSmallU(Widen(m, 4), 1000),
         Widen(DivSmallU(U32(u * 1000 - c), u), 4))

\* the requested time left out of the comparison
StillWaitingNoDelay(t, n, u) == LessU(t, n)
\* delayMicroseconds: while (micros() < (now + us)), the sum in uint64_t
StillWaiting(t, n, u) == LessU(t, AddU(n, Widen(u, 4)))

\* while (--ms): one round too few
DelayContinuesAboveOne(m) == m # U32(0) /\ m # U32(1)
\* delay: while (ms--), the test part
DelayContinues(m) == m # U32(0)

\* delay: while (ms--), the decrement part, on a uint32_t
Decrement(m) == AddU(m, U32(-1))

\* rccWriteBkpDr: value & 0xffff
BkpLow(v) == v[1]
\* rccWriteBkpDr: (value & 0xffff0000) >> 16
BkpHigh(v) == v[2]

\* rccReadBkpDr: lo | hi << 16.  hi is promoted to int, so for hi >= 2^15
\* the shift overflows int, which C leaves undefined; the ARM build
\* shifts the bit into the sign position, another build may not keep it
BkpReadOutcomes(lo, hi) ==
    IF hi < 32768 THEN {U32(lo + hi * Base)}
    ELSE {<<lo, hi>>, <<lo, hi - 32768>>}

(***************************************************************************)
(* State.                                                                  *)
(***************************************************************************)
VARIABLES
    \* the static variables of drv_system.c
    usTicks, sysTickUptime,
    \* the main line: the statement it is at and the statements it returns to
    pc, stack,
    \* locals and results of micros, millis, rccReadBkpDr
    ms, cycle_cnt, retMicros, retMillis, retBkp,
    \* locals of delayMicroseconds and delay
    now, us, dms,
    \* parameters of rccWriteBkpDr and systemReset
    value, toBootloader,
    \* SysTick: the countdown register, the reload register, the enable
    \* bit, the pending tick exception, and whether the instruction that
    \* was executing when the exception was pended may still complete
    clock, VAL, LOAD, ENABLE, pending, inflight,
    \* the pace of the timer: the main-line steps a tick period lasts at
    \* least while micros() runs (0: no such guarantee), and the main-line
    \* steps since the countdown last reached zero, counted up to that
    minPeriod, sinceTick,
    \* power and backup domain: PWR and BKP clocks enabled, PWR_CR_DBP,
    \* and the two 16-bit backup cells
    bkpClk, dbp, bkpLo, bkpHi,
    \* the RAM word at 0x20004FF0, the reset request in AIRCR, the LEDs
    bootFlag, aircr, led0, led1,
    \* history: the LEDs when failureMode was entered
    fmEntryLeds,
    \* history: the tick count when observation began, reloads and handler
    \* runs since, whether the counter wrapped
    base, reloads, handled, rolled,
    \* history of micros: the tick window in which cycle_cnt was read,
    \* handler runs at the first read of the iteration and inside the
    \* accepted iteration, retries of the call, the previous result, the
    \* number of completed calls (up to 2), and whether a reload or a tick
    \* happened since the previous and since the last call began
    valWindow, iterTicks, accTicks, retries, prevMicros, microsCalls,
    tickSincePrev, tickSinceLast,
    \* history of the other operations: the tick count when millis read
    \* the counter, the argument of delay, the calls it made and their
    \* arguments, the writes of the running reset or backup write, the
    \* steps systemInit has done
    millisTicks, dlArg, dlCalls, dlArgs, resetLog, initLog

tbVars == <<sysTickUptime, handled, rolled>>
cntVars == <<VAL, reloads>>
cfgVars == <<usTicks, clock, LOAD, ENABLE, base, minPeriod>>
irqVars == <<pending, inflight, sinceTick>>
ctlVars == <<pc, stack>>
micVars == <<ms, cycle_cnt, valWindow, iterTicks, accTicks>>
micHist == <<retMicros, prevMicros, microsCalls>>
micEntry == <<retries, tickSincePrev, tickSinceLast>>
dusVars == <<now, us>>
dlVars == <<dms, dlArg, dlCalls, dlArgs>>
bkpVars == <<bkpClk, dbp, bkpLo, bkpHi>>
rstVars == <<value, toBootloader, bootFlag, aircr, resetLog>>
ledVars == <<led0, led1, fmEntryLeds>>
miscVars == <<retMillis, millisTicks, retBkp, initLog>>

vars == <<tbVars, cntVars, cfgVars, irqVars, ctlVars, micVars, micHist,
          micEntry, dusVars, dlVars, bkpVars, rstVars, ledVars, miscVars>>

\* the index of the tick window the countdown register is in, and the
\* number of ticks delivered, both as the 32-bit counter would show them
Window == AddU(base, U32(reloads))
TicksDelivered == AddU(base, U32(handled))

\* static initialisers (lines 33, 35), reset values of the hardware
Init ==
    /\ usTicks = 0 /\ sysTickUptime = U32(0)
    /\ pc = "boot" /\ stack = <<>>
    /\ ms = U32(0) /\ cycle_cnt = 0 /\ retMicros = U64(0)
    /\ retMillis = U32(0) /\ retBkp = U32(0)
    /\ now = U64(0) /\ us = U32(0) /\ dms = U32(0)
    /\ value = U32(0) /\ toBootloader = FALSE
    /\ clock \in Clocks
    /\ VAL = 0 /\ LOAD = 0 /\ ENABLE = FALSE
    /\ pending = FALSE /\ inflight = FALSE
    /\ minPeriod \in {0, PeriodSteps} /\ sinceTick = 0
    /\ bkpClk = FALSE /\ dbp = FALSE /\ bkpLo = 0 /\ bkpHi = 0
    /\ bootFlag \in RamValues /\ aircr = FALSE
    /\ led0 \in BOOLEAN /\ led1 \in BOOLEAN
    /\ fmEntryLeds = <<>>
    /\ base = U32(0) /\ reloads = 0 /\ handled = 0 /\ rolled = FALSE
    /\ valWindow = U32(0) /\ iterTicks = 0 /\ accTicks = 0 /\ retries = 0
    /\ prevMicros = U64(0) /\ microsCalls = 0
    /\ tickSincePrev = FALSE /\ tickSinceLast = FALSE
    /\ millisTicks = U32(0)
    /\ dlArg = 0 /\ dlCalls = 0 /\ dlArgs = {}
    /\ resetLog = <<>> /\ initLog = <<>>

(***************************************************************************)
(* Control: the main line runs unless a tick exception is pending; the     *)
(* instruction in flight when the exception was pended still completes.    *)
(***************************************************************************)
MainStep ==
    /\ ~pending \/ inflight
    /\ inflight' = FALSE /\ pending' = pending
    /\ sinceTick' = IF sinceTick < minPeriod THEN sinceTick + 1 ELSE sinceTick

Goto(l) == pc' = l /\ stack' = stack
Call(l, ret) == pc' = l /\ stack' = ret \o stack
Return == pc' = Head(stack) /\ stack' = Tail(stack)

\* inside micros()
InMicros == pc \in {"mi_ms", "mi_val", "mi_chk", "mi_ret"}

\* the application is between two calls into drv_system.c, no reset requested
AtTop == pc \in {"boot", "idle"} /\ ~aircr

\* entering micros(): control, and the history kept per call
MicrosEntry(ret) ==
    /\ Call("mi_ms", ret)
    /\ retries' = 0
    /\ tickSincePrev' = tickSinceLast
    /\ tickSinceLast' = FALSE

(***************************************************************************)
(* The SysTick timer and its exception.                                    *)
(***************************************************************************)
\* the countdown register counts down; reaching zero pends the exception.
\* A tick period is far longer than exception entry, so zero is not
\* reached again while the exception is still pending.
CountDown ==
    /\ ENABLE /\ VAL > 0
    /\ \E v \in Marks(LOAD) :
         /\ v < VAL
         /\ v = 0 => /\ ~pending
                     /\ reloads < IF minPeriod = 0 THEN MaxTicks
                                                   ELSE PacedTicks
                     /\ InMicros => sinceTick >= minPeriod
         /\ VAL' = v
         /\ IF v = 0 THEN pending' = TRUE /\ inflight' = TRUE /\ sinceTick' = 0
                     ELSE UNCHANGED irqVars
    /\ UNCHANGED <<tbVars, reloads, cfgVars, ctlVars, micVars, micHist,
                   micEntry, dusVars, dlVars, bkpVars, rstVars, ledVars,
                   miscVars>>

\* on the clock edge after zero the register reloads: a new tick window
Reload ==
    /\ ENABLE /\ VAL = 0 /\ pending
    /\ VAL' = LOAD
    /\ reloads' = reloads + 1
    /\ tickSincePrev' = TRUE /\ tickSinceLast' = TRUE
    /\ UNCHANGED <<tbVars, cfgVars, irqVars, ctlVars, micVars, micHist,
                   retries, dusVars, dlVars, bkpVars, rstVars, ledVars,
                   miscVars>>

\* SysTick_Handler (lines 45-48), entered some cycles after the reload
SysTick_Handler ==
    /\ pending /\ VAL # 0
    /\ sysTickUptime' = Increment(sysTickUptime)
    /\ handled' = handled + 1
    /\ rolled' = (rolled \/ sysTickUptime = Max32)
    /\ pending' = FALSE /\ inflight' = FALSE /\ sinceTick' = sinceTick
    /\ tickSincePrev' = TRUE /\ tickSinceLast' = TRUE
    /\ UNCHANGED <<cntVars, cfgVars, ctlVars, micVars, micHist, retries,
                   dusVars, dlVars, bkpVars, rstVars, ledVars, miscVars>>

\* 2^32 - 2 tick periods go by while the application does not call into
\* drv_system.c: 2^32 - 2 runs of CountDown, Reload and SysTick_Handler
UptimePasses ==
    /\ pc = "idle" /\ ~aircr /\ ~pending
    /\ base = U32(0) /\ reloads = 0 /\ handled = 0 /\ microsCalls = 0
    /\ sysTickUptime' = NearRollover
    /\ base' = NearRollover
    /\ UNCHANGED <<handled, rolled, cntVars, usTicks, clock, LOAD, ENABLE,
                   minPeriod,
                   irqVars, ctlVars, micVars, micHist, micEntry, dusVars,
                   dlVars, bkpVars, rstVars, ledVars, miscVars>>

\* the tick periods up to the next time the counter is at 2^32 - 2 go by
\* while delayMicroseconds waits for a value beyond any that micros()
\* returns: runs of CountDown, Reload and SysTick_Handler, and rounds of
\* the loop of line 129 that all compare the same way, the last of them
\* having read the counter at 2^32 - 3
UptimeWraps ==
    /\ pc = "dus_cmp" /\ ~aircr /\ ~pending /\ reloads = handled
    /\ LessU(MaxMicros, AddU(now, Widen(us, 4)))
    /\ sysTickUptime' = NearRollover
    /\ base' = NearRollover
    /\ reloads' = 0 /\ handled' = 0
    /\ retMicros' = MicrosValue(AddU(NearRollover, U32(-1)), VAL, usTicks)
    /\ prevMicros' = retMicros'
    /\ microsCalls' = 2
    /\ tickSincePrev' = TRUE /\ tickSinceLast' = TRUE
    /\ UNCHANGED <<rolled, VAL, usTicks, clock, LOAD, ENABLE, minPeriod,
                   irqVars, ctlVars, micVars, retries, dusVars, dlVars,
                   bkpVars, rstVars, ledVars, miscVars>>

(***************************************************************************)
(* systemInit (lines 67-124).                                              *)
(***************************************************************************)
\* the LED pins made outputs before the LEDs are driven off
InitStepsLedsLate ==
    <<"NVIC_PriorityGroupConfig", "PeriphClockCmd", "RCC_ClearFlag",
      "gpioInit_AIN", "AFIO_NO_JTAG", "gpioInit_PP", "LEDS_OFF",
      "cycleCounterInit", "SysTick_Config">>

InitSteps == <<"NVIC_PriorityGroupConfig", "PeriphClockCmd", "RCC_ClearFlag",
               "gpioInit_AIN", "AFIO_NO_JTAG", "LEDS_OFF", "gpioInit_PP",
               "cycleCounterInit", "SysTick_Config">>

systemInit_call ==
    /\ pc = "boot" /\ ~aircr /\ MainStep
    /\ Call("si", <<"idle">>)
    /\ initLog' = <<>>
    /\ UNCHANGED <<tbVars, cntVars, cfgVars, micVars, micHist, micEntry,
                   dusVars, dlVars, bkpVars, rstVars, ledVars, retMillis,
                   millisTicks, retBkp>>

\* lines 93-110: priority grouping, clocks, reset flags, analog inputs, JTAG
systemInit_setup ==
    /\ pc = "si" /\ Len(initLog) < 5 /\ MainStep
    /\ initLog' = Append(initLog, InitSteps[Len(initLog) + 1])
    /\ UNCHANGED <<tbVars, cntVars, cfgVars, ctlVars, micVars, micHist,
                   micEntry, dusVars, dlVars, bkpVars, rstVars, ledVars,
                   retMillis, millisTicks, retBkp>>

\* lines 112-113: LED0_OFF; LED1_OFF
systemInit_ledsOff ==
    /\ pc = "si" /\ Len(initLog) = 5 /\ MainStep
    /\ led0' = FALSE /\ led1' = FALSE
    /\ initLog' = Append(initLog, InitSteps[6])
    /\ UNCHANGED <<fmEntryLeds, tbVars, cntVars, cfgVars, ctlVars, micVars, micHist,
                   micEntry, dusVars, dlVars, bkpVars, rstVars,
                   retMillis, millisTicks, retBkp>>

\* lines 115-117: the three indicator pins become push-pull outputs
systemInit_ledPins ==
    /\ pc = "si" /\ Len(initLog) = 6 /\ MainStep
    /\ initLog' = Append(initLog, InitSteps[7])
    /\ UNCHANGED <<tbVars, cntVars, cfgVars, ctlVars, micVars, micHist,
                   micEntry, dusVars, dlVars, bkpVars, rstVars, ledVars,
                   retMillis, millisTicks, retBkp>>

\* line 120 and lines 37-42
cycleCounterInit ==
    /\ pc = "si" /\ Len(initLog) = 7 /\ MainStep
    /\ usTicks' = CyclesPerMicrosecond(clock)
    /\ initLog' = Append(initLog, InitSteps[8])
    /\ UNCHANGED <<tbVars, cntVars, clock, LOAD, ENABLE, base, minPeriod,
                   ctlVars,
                   micVars, micHist, micEntry, dusVars, dlVars, bkpVars,
                   rstVars, ledVars, retMillis, millisTicks, retBkp>>

\* line 123: the timer is loaded and started, systemInit returns
systemInit_sysTick ==
    /\ pc = "si" /\ Len(initLog) = 8 /\ MainStep
    /\ LOAD' = SysTickReload(clock)
    /\ VAL' = SysTickReload(clock)
    /\ ENABLE' = TRUE
    /\ initLog' = Append(initLog, InitSteps[9])
    /\ Return
    /\ UNCHANGED <<tbVars, reloads, usTicks, clock, base, minPeriod, micVars,
                   micHist,
                   micEntry, dusVars, dlVars, bkpVars, rstVars, ledVars,
                   retMillis, millisTicks, retBkp>>

(***************************************************************************)
(* micros (lines 51-59) and millis (lines 62-65).                          *)
(***************************************************************************)
micros_call ==
    /\ pc = "idle" /\ ~aircr /\ MainStep
    /\ MicrosEntry(<<"idle">>)
    /\ UNCHANGED <<tbVars, cntVars, cfgVars, micVars, micHist, dusVars,
                   dlVars, bkpVars, rstVars, ledVars, miscVars>>

\* line 55: ms = sysTickUptime
micros_readMs ==
    /\ pc = "mi_ms" /\ MainStep
    /\ ms' = sysTickUptime
    /\ iterTicks' = handled
    /\ Goto("mi_val")
    /\ UNCHANGED <<tbVars, cntVars, cfgVars, cycle_cnt, valWindow, accTicks,
                   micHist, micEntry, dusVars, dlVars, bkpVars, rstVars,
                   ledVars, miscVars>>

\* line 56: cycle_cnt = SysTick->VAL
micros_readVal ==
    /\ pc = "mi_val" /\ MainStep
    /\ cycle_cnt' = VAL
    /\ valWindow' = Window
    /\ Goto("mi_chk")
    /\ UNCHANGED <<tbVars, cntVars, cfgVars, ms, iterTicks, accTicks,
                   micHist, micEntry, dusVars, dlVars, bkpVars, rstVars,
                   ledVars, miscVars>>

\* line 57: while (ms != sysTickUptime)
micros_check ==
    /\ pc = "mi_chk" /\ MainStep
    /\ IF Retry(ms, sysTickUptime)
       THEN /\ Goto("mi_ms")
            /\ retries' = retries + 1
            /\ accTicks' = accTicks
       ELSE /\ Goto("mi_ret")
            /\ retries' = retries
            /\ accTicks' = handled - iterTicks
    /\ UNCHANGED <<tbVars, cntVars, cfgVars, ms, cycle_cnt, valWindow,
                   iterTicks, micHist, tickSincePrev, tickSinceLast, dusVars,
                   dlVars, bkpVars, rstVars, ledVars, miscVars>>

\* line 58: the return value
micros_return ==
    /\ pc = "mi_ret" /\ MainStep
    /\ retMicros' = MicrosValue(ms, cycle_cnt, usTicks)
    /\ prevMicros' = retMicros
    /\ microsCalls' = IF microsCalls < 2 THEN microsCalls + 1 ELSE 2
    /\ ms' = U32(0) /\ cycle_cnt' = 0
    /\ valWindow' = U32(0) /\ iterTicks' = 0 /\ accTicks' = 0
    /\ retries' = 0
    /\ Return
    /\ UNCHANGED <<tbVars, cntVars, cfgVars, tickSincePrev, tickSinceLast,
                   dusVars, dlVars, bkpVars, rstVars, ledVars, miscVars>>

\* millis that clears the counter it has read
millis_readAndClear ==
    /\ pc = "idle" /\ ~aircr /\ MainStep
    /\ retMillis' = sysTickUptime
    /\ sysTickUptime' = U32(0)
    /\ millisTicks' = TicksDelivered
    /\ Call("ml_ret", <<"idle">>)
    /\ UNCHANGED <<handled, rolled, cntVars, cfgVars, micVars, micHist,
                   micEntry, dusVars, dlVars, bkpVars, rstVars, ledVars,
                   retBkp, initLog>>

\* lines 62-65: return sysTickUptime
millis ==
    /\ pc = "idle" /\ ~aircr /\ MainStep
    /\ retMillis' = sysTickUptime
    /\ millisTicks' = TicksDelivered
    /\ Call("ml_ret", <<"idle">>)
    /\ UNCHANGED <<tbVars, cntVars, cfgVars, micVars, micHist, micEntry,
                   dusVars, dlVars, bkpVars, rstVars, ledVars, retBkp,
                   initLog>>

\* the caller has used the value
millis_return ==
    /\ pc = "ml_ret" /\ MainStep
    /\ retMillis' = U32(0)
    /\ millisTicks' = U32(0)
    /\ Return
    /\ UNCHANGED <<tbVars, cntVars, cfgVars, micVars, micHist, micEntry,
                   dusVars, dlVars, bkpVars, rstVars, ledVars, retBkp,
                   initLog>>

(***************************************************************************)
(* delayMicroseconds (lines 126-130) and delay (lines 132-136).            *)
(***************************************************************************)
\* entering delayMicroseconds(u): line 128 calls micros() first
DusEntry(u, ret) ==
    /\ us' = u
    /\ now' = now
    /\ MicrosEntry(<<"dus_now">> \o ret)

delayMicroseconds_call ==
    /\ pc = "idle" /\ ~aircr /\ MainStep
    /\ \E u \in DelayUs : DusEntry(u, <<"idle">>)
    /\ UNCHANGED <<tbVars, cntVars, cfgVars, micVars, micHist, dlVars,
                   bkpVars, rstVars, ledVars, miscVars>>

\* line 128: now = micros(); then line 129 calls micros()
delayMicroseconds_now ==
    /\ pc = "dus_now" /\ MainStep
    /\ now' = retMicros
    /\ us' = us
    /\ MicrosEntry(<<"dus_cmp">>)
    /\ UNCHANGED <<tbVars, cntVars, cfgVars, micVars, micHist, dlVars,
                   bkpVars, rstVars, ledVars, miscVars>>

\* line 129: while (micros() < (now + us))
delayMicroseconds_compare ==
    /\ pc = "dus_cmp" /\ MainStep
    /\ IF StillWaiting(retMicros, now, us)
       THEN MicrosEntry(<<"dus_cmp">>)
       ELSE Goto("dus_ret") /\ UNCHANGED micEntry
    /\ UNCHANGED <<tbVars, cntVars, cfgVars, micVars, micHist, dusVars,
                   dlVars, bkpVars, rstVars, ledVars, miscVars>>

\* line 130
delayMicroseconds_return ==
    /\ pc = "dus_ret" /\ MainStep
    /\ now' = U64(0) /\ us' = U32(0)
    /\ Return
    /\ UNCHANGED <<tbVars, cntVars, cfgVars, micVars, micHist, micEntry,
                   dlVars, bkpVars, rstVars, ledVars, miscVars>>

delay_call ==
    /\ pc = "idle" /\ ~aircr /\ MainStep
    /\ \E m \in 0..MaxDelayMs : dms' = U32(m) /\ dlArg' = m
    /\ dlCalls' = 0 /\ dlArgs' = {}
    /\ Call("dl_test", <<"idle">>)
    /\ UNCHANGED <<tbVars, cntVars, cfgVars, micVars, micHist, micEntry,
                   dusVars, bkpVars, rstVars, ledVars, miscVars>>

\* lines 134-135: while (ms--) delayMicroseconds(1000);
delay_loop ==
    /\ pc = "dl_test" /\ MainStep
    /\ dms' = Decrement(dms)
    /\ dlArg' = dlArg
    /\ IF DelayContinues(dms)
       THEN /\ DusEntry(U32(1000), <<"dl_test">>)
            /\ dlCalls' = dlCalls + 1
            /\ dlArgs' = dlArgs \cup {U32(1000)}
       ELSE /\ Goto("dl_ret")
            /\ UNCHANGED <<dusVars, micEntry, dlCalls, dlArgs>>
    /\ UNCHANGED <<tbVars, cntVars, cfgVars, micVars, micHist, bkpVars,
                   rstVars, ledVars, miscVars>>

\* line 136
delay_return ==
    /\ pc = "dl_ret" /\ MainStep
    /\ dms' = U32(0) /\ dlArg' = 0 /\ dlCalls' = 0 /\ dlArgs' = {}
    /\ Return
    /\ UNCHANGED <<tbVars, cntVars, cfgVars, micVars, micHist, micEntry,
                   dusVars, bkpVars, rstVars, ledVars, miscVars>>

(***************************************************************************)
(* rccReadBkpDr (lines 145-148) and rccWriteBkpDr (lines 150-157).  The    *)
(* PWR and BKP registers ignore writes while their clocks are off, and the *)
(* backup cells ignore writes while PWR_CR_DBP is clear.                   *)
(***************************************************************************)
rccReadBkpDr ==
    /\ pc = "idle" /\ ~aircr /\ MainStep
    /\ retBkp' \in BkpReadOutcomes(bkpLo, bkpHi)
    /\ Call("rd_ret", <<"idle">>)
    /\ UNCHANGED <<tbVars, cntVars, cfgVars, micVars, micHist, micEntry,
                   dusVars, dlVars, bkpVars, rstVars, ledVars, retMillis,
                   millisTicks, initLog>>

\* the caller has used the value
rccReadBkpDr_return ==
    /\ pc = "rd_ret" /\ MainStep
    /\ retBkp' = U32(0)
    /\ Return
    /\ UNCHANGED <<tbVars, cntVars, cfgVars, micVars, micHist, micEntry,
                   dusVars, dlVars, bkpVars, rstVars, ledVars, retMillis,
                   millisTicks, initLog>>

rccWriteBkpDr_call ==
    /\ pc = "idle" /\ ~aircr /\ MainStep
    /\ \E v \in BkpValues : value' = v
    /\ resetLog' = <<>>
    /\ Call("wr_clk", <<"idle">>)
    /\ UNCHANGED <<tbVars, cntVars, cfgVars, micVars, micHist, micEntry,
                   dusVars, dlVars, bkpVars, toBootloader, bootFlag, aircr,
                   ledVars, miscVars>>

\* line 152: RCC_APB1PeriphClockCmd(RCC_APB1Periph_PWR | RCC_APB1Periph_BKP, ENABLE)
rccWriteBkpDr_clocks ==
    /\ pc = "wr_clk" /\ MainStep
    /\ bkpClk' = TRUE
    /\ resetLog' = Append(resetLog, "clocks")
    /\ Goto("wr_dbp")
    /\ UNCHANGED <<tbVars, cntVars, cfgVars, micVars, micHist, micEntry,
                   dusVars, dlVars, dbp, bkpLo, bkpHi, value, toBootloader,
                   bootFlag, aircr, ledVars, miscVars>>

\* the backup domain left write-protected
rccWriteBkpDr_noUnlock ==
    /\ pc = "wr_dbp" /\ MainStep
    /\ resetLog' = Append(resetLog, "unlock")
    /\ Goto("wr_lo")
    /\ UNCHANGED <<tbVars, cntVars, cfgVars, micVars, micHist, micEntry,
                   dusVars, dlVars, bkpVars, value, toBootloader, bootFlag,
                   aircr, ledVars, miscVars>>

\* line 153: PWR->CR |= PWR_CR_DBP
rccWriteBkpDr_unlock ==
    /\ pc = "wr_dbp" /\ MainStep
    /\ dbp' = (dbp \/ bkpClk)
    /\ resetLog' = Append(resetLog, "unlock")
    /\ Goto("wr_lo")
    /\ UNCHANGED <<tbVars, cntVars, cfgVars, micVars, micHist, micEntry,
                   dusVars, dlVars, bkpClk, bkpLo, bkpHi, value,
                   toBootloader, bootFlag, aircr, ledVars, miscVars>>

\* line 155: the low half
rccWriteBkpDr_low ==
    /\ pc = "wr_lo" /\ MainStep
    /\ bkpLo' = IF bkpClk /\ dbp THEN BkpLow(value) ELSE bkpLo
    /\ resetLog' = Append(resetLog, "low")
    /\ Goto("wr_hi")
    /\ UNCHANGED <<tbVars, cntVars, cfgVars, micVars, micHist, micEntry,
                   dusVars, dlVars, bkpClk, dbp, bkpHi, value, toBootloader,
                   bootFlag, aircr, ledVars, miscVars>>

\* lines 156-157: the high half, and return
rccWriteBkpDr_high ==
    /\ pc = "wr_hi" /\ MainStep
    /\ bkpHi' = IF bkpClk /\ dbp THEN BkpHigh(value) ELSE bkpHi
    /\ resetLog' = IF Head(stack) = "idle" THEN <<>>
                                           ELSE Append(resetLog, "high")
    /\ value' = U32(0)
    /\ Return
    /\ UNCHANGED <<tbVars, cntVars, cfgVars, micVars, micHist, micEntry,
                   dusVars, dlVars, bkpClk, dbp, bkpLo, toBootloader,
                   bootFlag, aircr, ledVars, miscVars>>

(***************************************************************************)
(* failureMode (lines 138-143) and systemReset (lines 161-174).            *)
(***************************************************************************)
failureMode_call ==
    /\ AtTop /\ MainStep
    /\ resetLog' = <<>>
    /\ fmEntryLeds' = <<led0, led1>>
    /\ Call("fm_led1", <<pc>>)
    /\ UNCHANGED <<tbVars, cntVars, cfgVars, micVars, micHist, micEntry,
                   dusVars, dlVars, bkpVars, value, toBootloader, bootFlag,
                   aircr, led0, led1, miscVars>>

\* line 140: LED1_OFF
failureMode_led1Off ==
    /\ pc = "fm_led1" /\ MainStep
    /\ led1' = FALSE
    /\ Goto("fm_led0")
    /\ UNCHANGED <<tbVars, cntVars, cfgVars, micVars, micHist, micEntry,
                   dusVars, dlVars, bkpVars, rstVars, led0, fmEntryLeds,
                   miscVars>>

\* LED0_OFF written for LED0_ON
failureMode_led0Off ==
    /\ pc = "fm_led0" /\ MainStep
    /\ led0' = FALSE
    /\ Goto("fm_call")
    /\ UNCHANGED <<tbVars, cntVars, cfgVars, micVars, micHist, micEntry,
                   dusVars, dlVars, bkpVars, rstVars, led1, fmEntryLeds,
                   miscVars>>

\* line 141: LED0_ON
failureMode_led0On ==
    /\ pc = "fm_led0" /\ MainStep
    /\ led0' = TRUE
    /\ Goto("fm_call")
    /\ UNCHANGED <<tbVars, cntVars, cfgVars, micVars, micHist, micEntry,
                   dusVars, dlVars, bkpVars, rstVars, led1, fmEntryLeds,
                   miscVars>>

\* line 142: systemReset(false)
failureMode_reset ==
    /\ pc = "fm_call" /\ MainStep
    /\ toBootloader' = FALSE
    /\ Call("sr_if", <<"fm_ret">>)
    /\ UNCHANGED <<tbVars, cntVars, cfgVars, micVars, micHist, micEntry,
                   dusVars, dlVars, bkpVars, value, bootFlag, aircr,
                   resetLog, ledVars, miscVars>>

\* line 143: nothing keeps the processor inside systemReset, so its caller
\* runs on until the requested reset takes effect
failureMode_return ==
    /\ pc = "fm_ret" /\ MainStep
    /\ Return
    /\ UNCHANGED <<tbVars, cntVars, cfgVars, micVars, micHist, micEntry,
                   dusVars, dlVars, bkpVars, rstVars, ledVars, miscVars>>

systemReset_call ==
    /\ AtTop /\ MainStep
    /\ \E b \in BOOLEAN : toBootloader' = b
    /\ resetLog' = <<>>
    /\ Call("sr_if", <<pc>>)
    /\ UNCHANGED <<tbVars, cntVars, cfgVars, micVars, micHist, micEntry,
                   dusVars, dlVars, bkpVars, value, bootFlag, aircr,
                   ledVars, miscVars>>

\* the sentinel write left out
systemReset_bootFlagSkipped ==
    /\ pc = "sr_if" /\ MainStep
    /\ UNCHANGED <<bootFlag, resetLog>>
    /\ Goto("sr_bkp")
    /\ UNCHANGED <<tbVars, cntVars, cfgVars, micVars, micHist, micEntry,
                   dusVars, dlVars, bkpVars, value, toBootloader, aircr,
                   ledVars, miscVars>>

\* the sentinel written whatever toBootloader is
systemReset_bootFlagAlways ==
    /\ pc = "sr_if" /\ MainStep
    /\ bootFlag' = BOOT_SENTINEL
    /\ resetLog' = Append(resetLog, "sentinel")
    /\ Goto("sr_bkp")
    /\ UNCHANGED <<tbVars, cntVars, cfgVars, micVars, micHist, micEntry,
                   dusVars, dlVars, bkpVars, value, toBootloader, aircr,
                   ledVars, miscVars>>

\* lines 163-167: if (toBootloader) *((uint32_t *)0x20004FF0) = 0xDEADBEEF
systemReset_bootFlag ==
    /\ pc = "sr_if" /\ MainStep
    /\ IF toBootloader
       THEN /\ bootFlag' = BOOT_SENTINEL
            /\ resetLog' = Append(resetLog, "sentinel")
       ELSE UNCHANGED <<bootFlag, resetLog>>
    /\ Goto("sr_bkp")
    /\ UNCHANGED <<tbVars, cntVars, cfgVars, micVars, micHist, micEntry,
                   dusVars, dlVars, bkpVars, value, toBootloader, aircr,
                   ledVars, miscVars>>

\* line 170: rccWriteBkpDr(BKP_SOFTRESET)
systemReset_softReset ==
    /\ pc = "sr_bkp" /\ MainStep
    /\ value' = BKP_SOFTRESET
    /\ Call("wr_clk", <<"sr_aircr">>)
    /\ UNCHANGED <<tbVars, cntVars, cfgVars, micVars, micHist, micEntry,
                   dusVars, dlVars, bkpVars, toBootloader, bootFlag, aircr,
                   resetLog, ledVars, miscVars>>

\* line 173: SCB->AIRCR = AIRCR_VECTKEY_MASK | 0x04 requests the reset
systemReset_request ==
    /\ pc = "sr_aircr" /\ MainStep
    /\ aircr' = TRUE
    /\ resetLog' = Append(resetLog, "request")
    /\ Goto("sr_ret")
    /\ UNCHANGED <<tbVars, cntVars, cfgVars, micVars, micHist, micEntry,
                   dusVars, dlVars, bkpVars, value, toBootloader, bootFlag,
                   ledVars, miscVars>>

\* line 174: the function ends after the write
systemReset_return ==
    /\ pc = "sr_ret" /\ MainStep
    /\ Return
    /\ UNCHANGED <<tbVars, cntVars, cfgVars, micVars, micHist, micEntry,
                   dusVars, dlVars, bkpVars, rstVars, ledVars, miscVars>>

\* the requested system reset: the core, the peripherals and the static
\* variables start over, the backup cells and the RAM word keep their
\* content, the LED pins float
HardwareReset ==
    /\ aircr
    /\ usTicks' = 0 /\ sysTickUptime' = U32(0)
    /\ pc' = "boot" /\ stack' = <<>>
    /\ ms' = U32(0) /\ cycle_cnt' = 0 /\ retMicros' = U64(0)
    /\ retMillis' = U32(0) /\ retBkp' = U32(0)
    /\ now' = U64(0) /\ us' = U32(0) /\ dms' = U32(0)
    /\ value' = U32(0) /\ toBootloader' = FALSE
    /\ VAL' = 0 /\ LOAD' = 0 /\ ENABLE' = FALSE
    /\ pending' = FALSE /\ inflight' = FALSE /\ sinceTick' = 0
    /\ bkpClk' = FALSE /\ dbp' = FALSE
    /\ aircr' = FALSE
    /\ led0' \in BOOLEAN /\ led1' \in BOOLEAN
    /\ fmEntryLeds' = <<>>
    /\ base' = U32(0) /\ reloads' = 0 /\ handled' = 0 /\ rolled' = FALSE
    /\ valWindow' = U32(0) /\ iterTicks' = 0 /\ accTicks' = 0 /\ retries' = 0
    /\ prevMicros' = U64(0) /\ microsCalls' = 0
    /\ tickSincePrev' = FALSE /\ tickSinceLast' = FALSE
    /\ millisTicks' = U32(0)
    /\ dlArg' = 0 /\ dlCalls' = 0 /\ dlArgs' = {}
    /\ resetLog' = <<>> /\ initLog' = <<>>
    /\ UNCHANGED <<clock, minPeriod, bkpLo, bkpHi, bootFlag>>

\* the timer, its exception and the passing of time
Timer == CountDown \/ Reload \/ SysTick_Handler \/ UptimePasses

Boot ==
    \/ systemInit_call \/ systemInit_setup \/ systemInit_ledsOff
    \/ systemInit_ledPins \/ cycleCounterInit \/ systemInit_sysTick

Timebase ==
    \/ micros_call \/ micros_readMs \/ micros_readVal \/ micros_check
    \/ micros_return \/ millis \/ millis_return
    \/ delayMicroseconds_call \/ delayMicroseconds_now
    \/ delayMicroseconds_compare \/ delayMicroseconds_return
    \/ delay_call \/ delay_loop \/ delay_return

Backup ==
    \/ rccReadBkpDr \/ rccReadBkpDr_return \/ rccWriteBkpDr_call
    \/ rccWriteBkpDr_clocks \/ rccWriteBkpDr_unlock \/ rccWriteBkpDr_low
    \/ rccWriteBkpDr_high

Resetting ==
    \/ failureMode_call \/ failureMode_led1Off \/ failureMode_led0On
    \/ failureMode_reset \/ failureMode_return
    \/ systemReset_call \/ systemReset_bootFlag \/ systemReset_softReset
    \/ systemReset_request \/ systemReset_return
    \/ HardwareReset

Next == Timer \/ Boot \/ Timebase \/ Backup \/ Resetting

\* the whole of drv_system.c
Spec == Init /\ [][Next]_vars

\* an application that uses the timebase and the delays
\* (it reads neither the RAM word nor the LEDs: one power-on value of each)
InitTime == Init /\ minPeriod = 0 /\ bootFlag = U32(0) /\ ~led0 /\ ~led1
NextTime == Timer \/ Boot \/ Timebase
SpecTime == InitTime /\ [][NextTime]_vars

\* an application that uses the backup register, failureMode and
\* systemReset while the tick runs
NextReset == Timer \/ Boot \/ Backup \/ Resetting
InitReset == Init /\ minPeriod = 0
SpecReset == InitReset /\ [][NextReset]_vars

\* an application that uses every operation of drv_system.c, on the 72 MHz
\* clock, from power-on to the first reset request and the steps after it
InitAll == InitTime /\ clock = 72000000
NextAll ==
    \/ CountDown \/ Reload \/ SysTick_Handler
    \/ Boot \/ Timebase \/ Backup
    \/ failureMode_call \/ failureMode_led1Off \/ failureMode_led0On
    \/ failureMode_reset \/ failureMode_return
    \/ systemReset_call \/ systemReset_bootFlag \/ systemReset_softReset
    \/ systemReset_request \/ systemReset_return
SpecAll == InitAll /\ [][NextAll]_vars

\* the return expression of micros() on every countdown value: systemInit
\* has run, micros() has read the counter (0, or 2^32 - 1) and any value
\* the countdown register shows between two reloads, and returns
InitMicrosValue ==
    /\ clock \in Clocks
    /\ usTicks = CyclesPerMicrosecond(clock)
    /\ LOAD = SysTickReload(clock) /\ ENABLE = TRUE
    /\ initLog = InitSteps
    /\ pc = "mi_ret" /\ stack = <<"idle">>
    /\ ms \in {U32(0), Max32}
    /\ sysTickUptime = ms /\ base = ms /\ valWindow = ms
    /\ cycle_cnt \in 1..LOAD
    /\ VAL = cycle_cnt
    /\ retMicros = U64(0)
    /\ retMillis = U32(0) /\ retBkp = U32(0)
    /\ now = U64(0) /\ us = U32(0) /\ dms = U32(0)
    /\ value = U32(0) /\ toBootloader = FALSE
    /\ pending = FALSE /\ inflight = FALSE
    /\ minPeriod = 0 /\ sinceTick = 0
    /\ bkpClk = FALSE /\ dbp = FALSE /\ bkpLo = 0 /\ bkpHi = 0
    /\ bootFlag = U32(0) /\ aircr = FALSE
    /\ led0 = FALSE /\ led1 = FALSE
    /\ fmEntryLeds = <<>>
    /\ reloads = 0 /\ handled = 0 /\ rolled = FALSE
    /\ iterTicks = 0 /\ accTicks = 0 /\ retries = 0
    /\ prevMicros = U64(0) /\ microsCalls = 0
    /\ tickSincePrev = FALSE /\ tickSinceLast = FALSE
    /\ millisTicks = U32(0)
    /\ dlArg = 0 /\ dlCalls = 0 /\ dlArgs = {}
    /\ resetLog = <<>>
SpecMicrosValue == InitMicrosValue /\ [][micros_return]_vars

\* an application that calls micros() while the timer keeps its pace: a
\* tick period lasts longer than one round of the loop of micros()
InitPaced ==
    /\ Init /\ minPeriod = PeriodSteps
    /\ clock = 72000000 /\ bootFlag = U32(0) /\ ~led0 /\ ~led1
NextPaced ==
    \/ CountDown \/ Reload \/ SysTick_Handler \/ Boot
    \/ micros_call \/ micros_readMs \/ micros_readVal \/ micros_check
    \/ micros_return
SpecPaced == InitPaced /\ [][NextPaced]_vars

\* an application that calls delayMicroseconds for as long as it runs: the
\* main line always takes its next step, and a pending tick is handled
InitLive == InitTime /\ clock = 72000000
MainLive ==
    \/ Boot
    \/ micros_readMs \/ micros_readVal \/ micros_check \/ micros_return
    \/ delayMicroseconds_call \/ delayMicroseconds_now
    \/ delayMicroseconds_compare \/ delayMicroseconds_return
NextLive ==
    \/ CountDown \/ Reload \/ SysTick_Handler \/ UptimePasses \/ UptimeWraps
    \/ MainLive
SpecLive ==
    /\ InitLive /\ [][NextLive]_vars
    /\ WF_vars(MainLive) /\ WF_vars(Reload) /\ WF_vars(SysTick_Handler)

(***************************************************************************)
(* Properties of the timebase and the delays, under SpecTime.              *)
(***************************************************************************)
\* C1: of two successive completed calls of micros(), with reloads and
\* ticks anywhere before, between and inside them, the second returns at
\* least what the first returned, as long as the tick counter has not
\* rolled over
MicrosMonotonic ==
    (microsCalls = 2 /\ ~rolled) => LeqU(prevMicros, retMicros)

\* two calls with a reload and a tick since the first began, the second
\* returning more
MicrosMonotonicWitness ==
    /\ microsCalls = 2 /\ ~rolled /\ ~InMicros
    /\ tickSincePrev /\ handled > 0
    /\ LessU(prevMicros, retMicros)

\* C2: the pair micros() computes its result from is never torn: no tick
\* was handled between the first read and the re-read of the accepted
\* iteration, and the countdown value was read in the tick window that ms
\* counts
NoTornRead ==
    pc = "mi_ret" => (accTicks = 0 /\ ms = valWindow)

\* a call that met a tick between its two reads of the counter, retried,
\* and is about to return
NoTornReadWitness ==
    pc = "mi_ret" /\ retries > 0

\* C3: the tick counter, and what millis() returns, is the number of ticks
\* delivered so far modulo 2^32, from 0 at start-up
MillisCountsTicks ==
    /\ sysTickUptime = TicksDelivered
    /\ pc = "ml_ret" => retMillis = millisTicks

\* millis() called after the counter has wrapped from 2^32 - 1 to 0
MillisCountsTicksWitness ==
    pc = "ml_ret" /\ rolled /\ retMillis = U32(0) /\ handled = 2

\* C4: of two calls of micros() with no reload and no tick from the start
\* of the first to the return of the second, the second returns at least
\* what the first returned
MicrosMonotonicWithinTick ==
    (microsCalls = 2 /\ ~InMicros /\ ~tickSincePrev)
        => LeqU(prevMicros, retMicros)

\* two calls inside one tick window, the second returning more
MicrosMonotonicWithinTickWitness ==
    /\ microsCalls = 2 /\ ~InMicros /\ ~tickSincePrev
    /\ LessU(prevMicros, retMicros)

\* C5: when delayMicroseconds(us) returns, the last value it read from
\* micros() is at least the value read at entry plus us, and that sum did
\* not wrap in 64 bits
DelayNotEarly ==
    /\ pc = "dus_ret" => LeqU(AddU(now, Widen(us, 4)), retMicros)
    /\ pc \in {"dus_cmp", "dus_ret"} => LeqU(now, AddU(now, Widen(us, 4)))

\* a delay of more than zero microseconds that is about to return
DelayNotEarlyWitness ==
    pc = "dus_ret" /\ us # U32(0) /\ LessU(now, retMicros)

\* C6: delay(ms) is ms calls of delayMicroseconds(1000) and nothing else:
\* at its return it has made exactly ms calls, each with 1000, and its own
\* steps change nothing but its counter and the argument they pass
DelayIsLoopOfChunks ==
    /\ [](pc = "dl_ret" => (dlCalls = dlArg /\ dlArgs \subseteq {U32(1000)}))
    /\ [][(pc \in {"dl_test", "dl_ret"} /\ pc' # pc) =>
            UNCHANGED <<tbVars, cntVars, cfgVars, pending, micVars, micHist,
                        now, bkpVars, rstVars, ledVars, miscVars>>]_vars

\* delay(1) about to return after its one call
DelayIsLoopOfChunksWitness ==
    pc = "dl_ret" /\ dlArg = 1 /\ dlCalls = 1 /\ dlArgs = {U32(1000)}

(***************************************************************************)
(* Properties of the reset path, under SpecReset.                          *)
(***************************************************************************)
Range(q) == {q[i] : i \in 1..Len(q)}

IsPrefix(p, q) == Len(p) <= Len(q) /\ \A i \in 1..Len(p) : p[i] = q[i]

\* inside failureMode, or inside the systemReset it calls
InFailureMode ==
    pc \in {"fm_led1", "fm_led0", "fm_call", "fm_ret"} \/ "fm_ret" \in Range(stack)

\* the writes of systemReset(true), in the order of the code
BootloaderWrites == <<"sentinel", "clocks", "unlock", "low", "high", "request">>

\* C7: systemReset(true) writes the sentinel 0xDEADBEEF to 0x20004FF0, then
\* the soft-reset magic value to the backup register, then the reset
\* request to AIRCR; the reset is never requested before both earlier
\* writes are in place
BootloaderWriteOrder ==
    toBootloader =>
        /\ IsPrefix(resetLog, BootloaderWrites)
        /\ resetLog # <<>> => bootFlag = BOOT_SENTINEL
        /\ aircr => /\ resetLog = BootloaderWrites
                    /\ bootFlag = BOOT_SENTINEL
                    /\ <<bkpLo, bkpHi>> = BKP_SOFTRESET

\* systemReset(true) has just requested the reset
BootloaderWriteOrderWitness ==
    pc = "sr_ret" /\ aircr /\ toBootloader

\* C8: whatever toBootloader is, the soft-reset magic value is in the
\* backup register when the reset is requested, and both halves are
\* written with the PWR and BKP clocks on and the write protection off
SoftResetMagicWritten ==
    /\ pc \in {"wr_lo", "wr_hi"} => (bkpClk /\ dbp)
    /\ aircr => <<bkpLo, bkpHi>> = BKP_SOFTRESET

\* systemReset(false) has just requested the reset
SoftResetMagicWrittenWitness ==
    pc = "sr_ret" /\ aircr /\ ~toBootloader /\ <<bkpLo, bkpHi>> = BKP_SOFTRESET

\* C9: the RAM word at 0x20004FF0 is written by systemReset exactly when
\* toBootloader is true; systemReset(false), and with it failureMode,
\* leaves it as it was
SentinelOnlyForBootloader ==
    /\ [][(pc = "sr_if" /\ pc' = "sr_bkp") =>
            IF toBootloader THEN bootFlag' = BOOT_SENTINEL
                            ELSE bootFlag' = bootFlag]_vars
    /\ [][~(pc = "sr_if" /\ pc' = "sr_bkp") => bootFlag' = bootFlag]_vars
    /\ [][InFailureMode => bootFlag' = bootFlag]_vars
    /\ []((aircr /\ ~toBootloader) => "sentinel" \notin Range(resetLog))

\* failureMode has requested the reset and the RAM word is not the sentinel
SentinelOnlyForBootloaderWitness ==
    InFailureMode /\ aircr /\ bootFlag # BOOT_SENTINEL

\* C10: in failureMode, from the two LED writes up to and including the
\* reset request, LED0 is on and LED1 is off, whatever they were at entry
FailureIndicators ==
    (pc = "fm_call" \/ "fm_ret" \in Range(stack)) => (led0 /\ ~led1)

\* failureMode entered with LED0 off and LED1 on has just requested the reset
FailureIndicatorsWitness ==
    /\ pc = "sr_ret" /\ aircr /\ "fm_ret" \in Range(stack)
    /\ fmEntryLeds = <<FALSE, TRUE>>

\* C11: systemReset and failureMode never return: once the reset request
\* is written to AIRCR, the main line executes nothing further, so it
\* stays at the end of systemReset until the reset takes it to the boot
\* vector
ResetNeverReturns ==
    aircr => pc = "sr_ret"

(***************************************************************************)
(* Properties of systemInit.                                               *)
(***************************************************************************)
\* C12: systemInit does its steps in this order: priority grouping,
\* peripheral clocks, reset-cause flags, ports A, B, C to analog input,
\* JTAG off, both LEDs off, the LED pins to push-pull outputs, usTicks,
\* the 1 kHz tick; usTicks is non-zero before the tick is started, and
\* until it is started no tick is delivered and the counter stays 0
InitOrder ==
    /\ IsPrefix(initLog,
                <<"NVIC_PriorityGroupConfig", "PeriphClockCmd",
                  "RCC_ClearFlag", "gpioInit_AIN", "AFIO_NO_JTAG",
                  "LEDS_OFF", "gpioInit_PP", "cycleCounterInit",
                  "SysTick_Config">>)
    /\ (pc = "si" /\ Len(initLog) >= 6) => (~led0 /\ ~led1)
    /\ usTicks # 0 => Len(initLog) >= 8
    /\ ENABLE => (Len(initLog) = 9 /\ usTicks >= 1)
    /\ ~ENABLE => /\ ~pending /\ reloads = 0 /\ handled = 0
                  /\ sysTickUptime = U32(0)
    /\ pc = "idle" => ENABLE

\* systemInit has returned and the first tick has been delivered
InitOrderWitness ==
    /\ pc = "idle" /\ Len(initLog) = 9 /\ usTicks = 72
    /\ handled = 1 /\ sysTickUptime = U32(1)

(***************************************************************************)
(* What writes the two variables of the timebase, under SpecAll.           *)
(***************************************************************************)
\* C14: only SysTick_Handler changes sysTickUptime and only the
\* cycleCounterInit step of systemInit changes usTicks; no step of micros,
\* millis, delayMicroseconds, delay, rccReadBkpDr, rccWriteBkpDr,
\* failureMode or systemReset changes either, and from the return of
\* systemInit on usTicks keeps its value
TimebaseWriters ==
    /\ [][sysTickUptime' # sysTickUptime =>
            pending /\ ~pending' /\ handled' = handled + 1 /\ pc' = pc]_vars
    /\ [][usTicks' # usTicks =>
            pc = "si" /\ Len(initLog) = 7 /\ pc' = "si"]_vars
    /\ [][(pc' # pc /\ pc # "si") =>
            UNCHANGED <<sysTickUptime, usTicks>>]_vars
    /\ [][(ENABLE /\ ENABLE') => usTicks' = usTicks]_vars

\* after ticks, a call of micros and a write of the backup register, the
\* main line is inside failureMode with both variables as they were left
TimebaseWritersWitness ==
    /\ InFailureMode /\ aircr /\ microsCalls > 0
    /\ <<bkpLo, bkpHi>> = BKP_SOFTRESET
    /\ usTicks = 72 /\ sysTickUptime = U32(2) /\ handled = 2

WithinTick(v, m) ==
    /\ LeqU(MulSmallU(Widen(m, 4), 1000), v)
    /\ LeqU(v, AddU(MulSmallU(Widen(m, 4), 1000), U64(1000)))

\* C16: with usTicks >= 1 as systemInit leaves it, for every countdown
\* value from 0 to usTicks * 1000 - 1 the term
\* (usTicks * 1000 - cycle_cnt) / usTicks does not underflow in 32 bits and
\* is between 0 and 1000, so micros() returns at least ms * 1000 and at
\* most ms * 1000 + 1000
MicrosValueRange ==
    /\ (pc = "mi_ret" /\ usTicks >= 1
            /\ cycle_cnt \in 0..(usTicks * 1000 - 1))
        => /\ usTicks * 1000 - cycle_cnt \in 1..(usTicks * 1000)
           /\ WithinTick(MicrosValue(ms, cycle_cnt, usTicks), ms)
           /\ WithinTick(MicrosValue(ms, 0, usTicks), ms)
    /\ (microsCalls = 1 /\ ~InMicros /\ handled = 0)
        => WithinTick(retMicros, sysTickUptime)

\* micros() has returned 2^32 - 1 milliseconds and nothing more: the
\* counter at its largest value, the countdown register just reloaded
MicrosValueRangeWitness ==
    /\ pc = "idle" /\ microsCalls = 1 /\ usTicks = 72
    /\ sysTickUptime = Max32
    /\ retMicros = MulSmallU(Widen(Max32, 4), 1000)

(***************************************************************************)
(* The retry loop of micros(), under SpecPaced.                            *)
(***************************************************************************)
\* C13: where a tick period lasts longer than one round of the loop of
\* micros(), at most one tick lands inside one round, and every call
\* returns after a bounded number of retries, three at most, however the
\* ticks fall
RetriesBounded ==
    minPeriod >= 4 =>
        /\ retries <= 3
        /\ pc \in {"mi_val", "mi_chk", "mi_ret"} => handled - iterTicks <= 1

\* a call of micros() that met a tick in each of its first three rounds is
\* about to return from its fourth, with another tick still to come
RetriesBoundedWitness ==
    minPeriod >= 4 /\ pc = "mi_ret" /\ retries = 3 /\ reloads < PacedTicks

(***************************************************************************)
(* Termination of the delays, under SpecLive.                              *)
(***************************************************************************)
\* inside delayMicroseconds, or inside the micros() it calls
InDelayMicroseconds ==
    \/ pc \in {"dus_now", "dus_cmp", "dus_ret"}
    \/ "dus_now" \in Range(stack) \/ "dus_cmp" \in Range(stack)

\* C17: as long as ticks keep being handled, every call of
\* delayMicroseconds (and so of delay) returns; and delayMicroseconds(0)
\* returns at its first comparison, without waiting for a tick
DelaysReturn ==
    /\ []<><<SysTick_Handler>>_vars => (InDelayMicroseconds ~> pc = "dus_ret")
    /\ []((pc = "dus_cmp" /\ us = U32(0)) => ~StillWaiting(retMicros, now, us))
====
